---- MODULE Spec2Model ----
(***************************************************************************)
(* pyrolite.util.lambdas.plot: the three plotting helpers                  *)
(*   plot_lambdas_components, plot_lambdas_profiles, plot_tetrads_profiles *)
(* as a state machine.  One behaviour is one call (optionally followed by  *)
(* a second call of plot_tetrads_profiles on the same taus with other      *)
(* params / index, so that two calls can be compared).                     *)
(*                                                                         *)
(* Number representation (all arithmetic is exact integer arithmetic):     *)
(*  - a position on the atomic-number axis is an integer number of         *)
(*    1/PScale units, PScale = 4 * (NLine - 1), so that the integers       *)
(*    57..71, the NLine linspace samples and the tetrad centres            *)
(*    (multiples of 1/4) are all integers;                                 *)
(*  - a tetrad value is an integer number of 1/HW^2 units, HW the tetrad   *)
(*    half width in position units;                                        *)
(*  - an ionic radius is an integer number of 1/(1000*PScale) Angstrom;    *)
(*  - the x axis of the lambda plots is counted in linspace steps.         *)
(*  - np.nan is the reserved integer NaN, outside every value range.       *)
(***************************************************************************)
EXTENDS Integers, Sequences, FiniteSets

VARIABLES
    fn,          \* which function is called
    pc,          \* position inside the call
    err,         \* exception raised ("" when none)
    args,        \* the arguments of the call
    ts,          \* plot_tetrads_profiles: local ts (after np.atleast_2d)
    index,       \* plot_tetrads_profiles: local index
    f,           \* plot_tetrads_profiles: the parameter set f closes over
    ys,          \* plot_tetrads_profiles: local ys    [shape, rows]
    liney,       \* plot_tetrads_profiles: local liney [shape, rows]
    xs,          \* local xs
    linex,       \* plot_tetrads_profiles: local linex
    ax,          \* the axes object the series are drawn on
    params,      \* plot_lambdas_*: local params (after _get_params)
    func,        \* plot_lambdas_*: local reconstructed_func
    loop,        \* plot_lambdas_components: position of the for loop
    series,      \* the series drawn so far, in drawing order
    prev         \* arguments and series of the previous completed call

vars == <<fn, pc, err, args, ts, index, f, ys, liney, xs, linex, ax,
          params, func, loop, series, prev>>

----------------------------------------------------------------------------
(* Bounds of the model *)

MaxTau == 1
MaxRows == 4
MaxLen == 3
MaxLam == 1

(* Program constants *)

ZFirst == 57
ZStop == 72
LineLast == 71
NLine == 1000
NSamples == 100
NTetrads == 4
DefaultDegree == 4
AtolInv == 100000000
NaN == -999999999

PScale == 4 * (NLine - 1)

Abs(v) == IF v < 0 THEN -v ELSE v

Min(a, b) == IF a < b THEN a ELSE b

RECURSIVE SumSeq(_)
SumSeq(s) == IF s = <<>> THEN 0 ELSE s[1] + SumSeq(Tail(s))

RECURSIVE ProdSeq(_)
ProdSeq(s) == IF s = <<>> THEN 1 ELSE s[1] * ProdSeq(Tail(s))

(* An array is [shape |-> <<..>>, rows |-> <<row, ...>>]; a 1-d array has
   one row. *)
Arr(shape, rows) == [shape |-> shape, rows |-> rows]

NoArr == Arr(<<>>, <<>>)

----------------------------------------------------------------------------
(* numpy *)

\* np.isclose(v, 0) with the default atol = 1e-8 (rtol scales |0|); unit is
\* the number of model units in 1.0
isclose0(v, unit) == Abs(v) <= unit \div AtolInv

\* np.atleast_2d
atleast_2d(a) == IF Len(a.shape) = 1 THEN Arr(<<1, a.shape[1]>>, a.rows) ELSE a

\* ndarray.squeeze: axes of length 1 are removed
squeeze(a) == Arr(SelectSeq(a.shape, LAMBDA d : d # 1), a.rows)

\* the shape two operands broadcast to, <<-1>> when they do not broadcast
broadcast(s, t) ==
    LET n == IF Len(s) > Len(t) THEN Len(s) ELSE Len(t)
        dim(u, i) == IF i + Len(u) - n >= 1 THEN u[i + Len(u) - n] ELSE 1
        ok == \A i \in 1..n : dim(s, i) = dim(t, i) \/ dim(s, i) = 1 \/ dim(t, i) = 1
    IN IF ok THEN [i \in 1..n |-> IF dim(s, i) = 1 THEN dim(t, i) ELSE dim(s, i)]
       ELSE <<-1>>

\* a @ b for a of shape (n, m) and b a sequence of m rows
matmul(a, b) ==
    Arr(<<a.shape[1], Len(b[1])>>,
        [r \in 1..a.shape[1] |->
            [i \in 1..Len(b[1]) |->
                SumSeq([j \in 1..a.shape[2] |-> a.rows[r][j] * b[j][i]])]])

----------------------------------------------------------------------------
(* the tetrad function, the radius transform *)

TetradWidth == (7 * PScale) \div 2

DefaultTetrads ==
    [j \in 1..NTetrads |->
        [centre |-> (235 * PScale) \div 4 + (j - 1) * TetradWidth,
         width |-> TetradWidth]]

ShiftedTetrads ==
    [j \in 1..NTetrads |->
        [centre |-> (236 * PScale) \div 4 + (j - 1) * TetradWidth,
         width |-> TetradWidth]]

\* the number of value units in 1.0
VUnit == (TetradWidth \div 2) * (TetradWidth \div 2)

\* x0 = 1 - ((x - centre) / (width / 2))^2 where x0 is positive, else 0
\* (x0 > 0 exactly when |x - centre| < width / 2)
tetrad(x, centre, width) ==
    LET hw == width \div 2
        d == Abs(x - centre)
    IN IF d < hw THEN hw * hw - d * d ELSE 0

\* get_tetrads_function(params): the parameter set the returned f closes
\* over; <<>> stands for None
get_tetrads_function(p) == IF p = <<>> THEN DefaultTetrads ELSE p

\* f(x, sum=False): one row per tetrad
tetrads(p, x) ==
    [j \in 1..Len(p) |-> [i \in 1..Len(x) |-> tetrad(x[i], p[j].centre, p[j].width)]]

\* ionic radii of La..Lu (charge 3, coordination 8), in 1/1000 Angstrom
Radii == <<1160, 1143, 1126, 1109, 1093, 1079, 1066, 1053, 1040, 1027,
           1015, 1004, 994, 985, 977>>

\* REE_z_to_radii at one position
z_to_radius(x) ==
    LET k == x \div PScale - ZFirst + 1
        fr == x % PScale
    IN IF fr = 0 THEN Radii[k] * PScale
       ELSE Radii[k] * (PScale - fr) + Radii[k + 1] * fr

REE_z_to_radii(x) == [i \in 1..Len(x) |-> z_to_radius(x[i])]

----------------------------------------------------------------------------
(* plot_tetrads_profiles *)

\* z = np.arange(57, 72), in position units
z == [i \in 1..(ZStop - ZFirst) |-> (ZFirst + i - 1) * PScale]

\* linez = np.linspace(57, 71, 1000), in position units
linez ==
    [k \in 1..NLine |->
        ZFirst * PScale + (k - 1) * (((LineLast - ZFirst) * PScale) \div (NLine - 1))]

\* np.array([57, 64, 64, 71]), in position units
Anchors == <<57 * PScale, 64 * PScale, 64 * PScale, 71 * PScale>>

\* mutant of tetrads_f: the argument params is passed on
tetrads_f_passed(p) == get_tetrads_function(p)

\* f = get_tetrads_function(params=None): the argument params is not passed
tetrads_f(p) == get_tetrads_function(<<>>)

\* (ts @ f(x, sum=False)).squeeze()
profile(t, p, x) == squeeze(matmul(t, tetrads(p, x)))

\* (1 - np.isclose(z[:, None] - anchors.T, 0).T).astype(bool): one row per
\* anchor, one column per atomic number
anchor_mask ==
    [a \in 1..Len(Anchors) |->
        [i \in 1..Len(z) |-> ~isclose0(z[i] - Anchors[a], PScale)]]

\* mutant of marker_drop0: the anchors are not exempted
marker_drop0_no_anchor(y) ==
    [ok |-> broadcast(y.shape, <<Len(anchor_mask), Len(z)>>) = y.shape,
     arr |-> Arr(y.shape,
         [r \in 1..Len(y.rows) |->
             [i \in 1..Len(z) |->
                 IF isclose0(y.rows[r][i], VUnit) THEN NaN ELSE y.rows[r][i]]])]

\* yfltr = np.isclose(ys, 0); yfltr *= anchor_mask; ys[yfltr] = np.nan.
\* The in-place product raises unless the broadcast shape is yfltr's own.
marker_drop0(y) ==
    LET mshape == <<Len(anchor_mask), Len(z)>>
    IN IF broadcast(y.shape, mshape) # y.shape
       THEN [ok |-> FALSE, arr |-> y]
       ELSE [ok |-> TRUE,
             arr |-> Arr(y.shape,
                 [r \in 1..Len(y.rows) |->
                     [i \in 1..Len(z) |->
                         IF isclose0(y.rows[r][i], VUnit) /\ anchor_mask[r][i]
                         THEN NaN ELSE y.rows[r][i]]])]

\* mutant of line_drop0: the line is left as computed
line_drop0_none(y) == y

\* mutant of line_drop0: zeros at the anchor positions are exempted, as for
\* the markers
line_drop0_anchors(y) ==
    Arr(y.shape,
        [r \in 1..Len(y.rows) |->
            [k \in 1..Len(y.rows[r]) |->
                IF isclose0(y.rows[r][k], VUnit)
                   /\ \A a \in 1..Len(Anchors) : linez[k] # Anchors[a]
                THEN NaN ELSE y.rows[r][k]]])

\* liney[np.isclose(liney, 0)] = np.nan
line_drop0(y) ==
    Arr(y.shape,
        [r \in 1..Len(y.rows) |->
            [k \in 1..Len(y.rows[r]) |->
                IF isclose0(y.rows[r][k], VUnit) THEN NaN ELSE y.rows[r][k]]])

\* mutant of radii_axis: "elements" is not recognised
radii_axis_only(idx) == idx = "radii"

\* if index in ["radii", "elements"]
radii_axis(idx) == idx \in {"radii", "elements"}

\* the x coordinates and axes chosen by index
select_axis(idx) ==
    IF radii_axis(idx)
    THEN [index |-> idx, xs |-> REE_z_to_radii(z), linex |-> REE_z_to_radii(linez),
          ax |-> [fn |-> "REE_v_radii", index |-> idx]]
    ELSE [index |-> "z", xs |-> z, linex |-> linez,
          ax |-> [fn |-> "spider", index |-> "z"]]

TauVals == 0..MaxTau

\* one tau vector: one tetrad weighted a, the others b
TauVectors ==
    {Arr(<<NTetrads>>, <<[j \in 1..NTetrads |-> IF j = t THEN ab[1] ELSE ab[2]]>>) :
        t \in 1..NTetrads, ab \in TauVals \X TauVals}

\* n tau vectors: row r weights tetrad r by a, the others by b
TauMatrices ==
    {Arr(<<n, NTetrads>>,
         [r \in 1..n |-> [j \in 1..NTetrads |-> IF r = j THEN ab[1] ELSE ab[2]]]) :
        n \in 1..MaxRows, ab \in TauVals \X TauVals}

TetradParamSets == {<<>>, ShiftedTetrads}

IndexValues == {"radii", "elements", "z", "other"}

TetradArgs ==
    [ts : TauVectors \cup TauMatrices, params : TetradParamSets,
     index : IndexValues, drop0 : BOOLEAN]

NoPrev == [calls |-> 0, args |-> <<>>, f |-> <<>>, series |-> <<>>]

NoAx == [fn |-> "", index |-> ""]

NoFunc == [ok |-> FALSE, lambdas |-> <<>>, params |-> <<>>]

InitTetrads ==
    /\ fn = "plot_tetrads_profiles"
    /\ args \in TetradArgs
    /\ pc = "t_eval"
    /\ err = ""
    /\ ts = args.ts
    /\ index = args.index
    /\ f = <<>>
    /\ ys = NoArr /\ liney = NoArr /\ xs = <<>> /\ linex = <<>>
    /\ ax = NoAx
    /\ params = <<>> /\ func = NoFunc /\ loop = 0
    /\ series = <<>>
    /\ prev = NoPrev

\* lines 85-92
Evaluate ==
    /\ pc = "t_eval"
    /\ f' = tetrads_f(args.params)
    /\ ts' = atleast_2d(ts)
    /\ ys' = profile(ts', f', z)
    /\ liney' = profile(ts', f', linez)
    /\ pc' = "t_axis"
    /\ UNCHANGED <<fn, err, args, index, xs, linex, ax, params, func, loop, series, prev>>

\* lines 94-106
SelectAxis ==
    /\ pc = "t_axis"
    /\ LET sel == select_axis(index)
       IN /\ index' = sel.index
          /\ xs' = sel.xs
          /\ linex' = sel.linex
          /\ ax' = sel.ax
    /\ pc' = "t_drop0"
    /\ UNCHANGED <<fn, err, args, ts, f, ys, liney, params, func, loop, series, prev>>

\* lines 107-114
Drop0 ==
    /\ pc = "t_drop0"
    /\ IF ~args.drop0
       THEN pc' = "t_scatter" /\ UNCHANGED <<ys, liney, err>>
       ELSE LET m == marker_drop0(ys)
            IN IF m.ok
               THEN /\ ys' = m.arr
                    /\ liney' = line_drop0(liney)
                    /\ pc' = "t_scatter"
                    /\ err' = err
               ELSE /\ pc' = "error"
                    /\ err' = "ValueError"
                    /\ UNCHANGED <<ys, liney>>
    /\ UNCHANGED <<fn, args, ts, index, f, xs, linex, ax, params, func, loop, series, prev>>

\* lines 116-118: scatter-only spider
Scatter ==
    /\ pc = "t_scatter"
    /\ series' = Append(series, [kind |-> "marker", x |-> xs, y |-> ys])
    /\ pc' = "t_line"
    /\ UNCHANGED <<fn, err, args, ts, index, f, ys, liney, xs, linex, ax, params, func,
                   loop, prev>>

\* lines 120-124: line-only spider, return ax
Line ==
    /\ pc = "t_line"
    /\ series' = Append(series, [kind |-> "line", x |-> linex, y |-> liney])
    /\ pc' = "done"
    /\ UNCHANGED <<fn, err, args, ts, index, f, ys, liney, xs, linex, ax, params, func,
                   loop, prev>>

\* a second call that agrees with the first on ts, index and drop0 and
\* differs from it in params
CallAgain ==
    /\ pc = "done"
    /\ fn = "plot_tetrads_profiles"
    /\ prev.calls = 0
    /\ prev' = [calls |-> 1, args |-> args, f |-> f, series |-> series]
    /\ \E p \in TetradParamSets \ {args.params} :
          args' = [args EXCEPT !.params = p]
    /\ pc' = "t_eval"
    /\ ts' = args'.ts
    /\ index' = args'.index
    /\ f' = <<>>
    /\ ys' = NoArr /\ liney' = NoArr /\ xs' = <<>> /\ linex' = <<>>
    /\ ax' = NoAx
    /\ series' = <<>>
    /\ UNCHANGED <<fn, err, params, func, loop>>

----------------------------------------------------------------------------
(* plot_lambdas_components, plot_lambdas_profiles *)

\* xs = np.linspace(np.max(radii), np.min(radii), 100), counted in linspace
\* steps above the smallest radius: NSamples - 1 down to 0
radii_xs == [k \in 1..NSamples |-> NSamples - k]

\* the parameters of the polynomial of degree d: a tuple of d roots
poly_params(d, shift) == [j \in 1..d |-> (j * (NSamples - 1)) \div (d + 1) + shift]

\* a parameter set for n terms: one tuple per degree 0..n-1
param_set(n, shift) == [i \in 1..n |-> poly_params(i - 1, shift)]

\* _get_params(params, degree): the caller's set, or the set of the degree
_get_params(a) == IF a.given THEN a.params ELSE param_set(a.degree, 0)

\* the polynomial of one parameter tuple at x: the product of (x - root)
lambda_poly(x, ps) == ProdSeq([j \in 1..Len(ps) |-> x - ps[j]])

\* get_lambda_poly_func(lambdas, params): fails with ShapeMismatch when the
\* lengths differ, else the function closes over both
get_lambda_poly_func(l, ps) ==
    IF Len(l) # Len(ps) THEN NoFunc ELSE [ok |-> TRUE, lambdas |-> l, params |-> ps]

\* the reconstructed function at each x of xarr: sum of lambda_i * poly_i(x)
apply_func(g, xarr) ==
    [k \in 1..Len(xarr) |->
        SumSeq([i \in 1..Len(g.lambdas) |->
                    g.lambdas[i] * lambda_poly(xarr[k], g.params[i])])]

\* mutant of reconstructed_func: both arguments cut to the common length
reconstructed_func_zip(l, ps) ==
    get_lambda_poly_func(SubSeq(l, 1, Min(Len(l), Len(ps))),
                         SubSeq(ps, 1, Min(Len(l), Len(ps))))

\* mutant of reconstructed_func: the parameters of the default degree are
\* passed instead of the local params
reconstructed_func_default(l, ps) ==
    get_lambda_poly_func(l, param_set(DefaultDegree, 0))

\* line 35, line 69
reconstructed_func(l, ps) == get_lambda_poly_func(l, ps)

Digits == <<"0", "1", "2", "3", "4", "5", "6", "7", "8", "9">>

\* "{}".format(n) for a one-digit n
format(n) == Digits[n + 1]

\* mutant of component_label: the list index is inverted
component_label_inverted(n) ==
    <<"$r^", format(n), ": \\lambda_", format(n)>>
    \o <<<<"\\cdot f_", format(n)>>, <<>>>>[(IF n # 0 THEN 1 ELSE 0) + 1]
    \o <<"$">>

\* lines 44-48: the label of the component whose parameter tuple has n entries
component_label(n) ==
    <<"$r^", format(n), ": \\lambda_", format(n)>>
    \o <<<<"\\cdot f_", format(n)>>, <<>>>>[(IF n = 0 THEN 1 ELSE 0) + 1]
    \o <<"$">>

\* mutant of component_series: the coefficient is not applied
component_series_unweighted(w, ps, xarr) ==
    [label |-> component_label(Len(ps)), x |-> xarr,
     y |-> apply_func(get_lambda_poly_func(<<1>>, <<ps>>), xarr), ls |-> "--"]

\* line 43, line 49: the series of the component (w, p)
component_series(w, ps, xarr) ==
    [label |-> component_label(Len(ps)), x |-> xarr,
     y |-> apply_func(get_lambda_poly_func(<<w>>, <<ps>>), xarr), ls |-> "--"]

\* line 41, line 75
regression_series(g, xarr) ==
    [label |-> <<"Regression">>, x |-> xarr, y |-> apply_func(g, xarr), ls |-> "-"]

\* zip(lambdas, params): as many pairs as the shorter has entries
zip_len(l, ps) == Min(Len(l), Len(ps))

LamVals == -1..MaxLam

LambdaVectors == UNION {[1..n -> LamVals] : n \in 0..MaxLen}

ParamShifts == {0, 7}

LambdaArgs ==
    {[lambdas |-> l, given |-> TRUE, params |-> param_set(n, sh), degree |-> DefaultDegree] :
        l \in LambdaVectors, n \in 0..MaxLen, sh \in ParamShifts}
    \cup
    {[lambdas |-> l, given |-> FALSE, params |-> <<>>, degree |-> d] :
        l \in LambdaVectors, d \in 0..MaxLen}

InitLambdas ==
    /\ fn \in {"plot_lambdas_components", "plot_lambdas_profiles"}
    /\ args \in LambdaArgs
    /\ pc = "l_func"
    /\ err = ""
    /\ ts = NoArr /\ index = "" /\ f = <<>>
    /\ ys = NoArr /\ liney = NoArr /\ xs = <<>> /\ linex = <<>>
    /\ ax = NoAx
    /\ params = args.params /\ func = NoFunc /\ loop = 0
    /\ series = <<>>
    /\ prev = NoPrev

\* lines 34-35, lines 68-69
Reconstruct ==
    /\ pc = "l_func"
    /\ params' = _get_params(args)
    /\ func' = reconstructed_func(args.lambdas, params')
    /\ IF func'.ok
       THEN pc' = "l_plot" /\ err' = err
       ELSE pc' = "error" /\ err' = "ShapeMismatch"
    /\ UNCHANGED <<fn, args, ts, index, f, ys, liney, xs, linex, ax, loop, series, prev>>

\* lines 37-41, lines 71-76
Regression ==
    /\ pc = "l_plot"
    /\ ax' = [fn |-> "REE_v_radii", index |-> "radii"]
    /\ xs' = radii_xs
    /\ series' = Append(series, regression_series(func, xs'))
    /\ loop' = 1
    /\ pc' = IF fn = "plot_lambdas_components" THEN "l_loop" ELSE "done"
    /\ UNCHANGED <<fn, err, args, ts, index, f, ys, liney, linex, params, func, prev>>

\* lines 42-49: one turn of the loop
Component ==
    /\ pc = "l_loop"
    /\ loop <= zip_len(args.lambdas, params)
    /\ series' = Append(series, component_series(args.lambdas[loop], params[loop], xs))
    /\ loop' = loop + 1
    /\ UNCHANGED <<fn, pc, err, args, ts, index, f, ys, liney, xs, linex, ax, params, func,
                   prev>>

\* line 50: the loop is exhausted, return ax
Return ==
    /\ pc = "l_loop"
    /\ loop > zip_len(args.lambdas, params)
    /\ pc' = "done"
    /\ UNCHANGED <<fn, err, args, ts, index, f, ys, liney, xs, linex, ax, params, func,
                   loop, series, prev>>

Init == InitTetrads \/ InitLambdas

Next ==
    \/ Evaluate \/ SelectAxis \/ Drop0 \/ Scatter \/ Line \/ CallAgain
    \/ Reconstruct \/ Regression \/ Component \/ Return

Spec == Init /\ [][Next]_vars

\* a second call that agrees with the first on ts, params and drop0 and
\* differs from it in index
CallAgainIndex ==
    /\ pc = "done"
    /\ prev.calls = 0
    /\ prev' = [calls |-> 1, args |-> args, f |-> f, series |-> series]
    /\ \E idx \in IndexValues \ {args.index} :
          args' = [args EXCEPT !.index = idx]
    /\ pc' = "t_eval"
    /\ ts' = args'.ts
    /\ index' = args'.index
    /\ f' = <<>>
    /\ ys' = NoArr /\ liney' = NoArr /\ xs' = <<>> /\ linex' = <<>>
    /\ ax' = NoAx
    /\ series' = <<>>
    /\ UNCHANGED <<fn, err, params, func, loop>>

InitIndex == InitTetrads /\ args.params = <<>>

NextIndex == Evaluate \/ SelectAxis \/ Drop0 \/ Scatter \/ Line \/ CallAgainIndex

\* plot_tetrads_profiles called twice, the calls differing in index only
SpecIndex == InitIndex /\ [][NextIndex]_vars

----------------------------------------------------------------------------
(* Properties *)

TetradsDone == fn = "plot_tetrads_profiles" /\ pc = "done"

ComponentsCall == fn = "plot_lambdas_components"

LambdasCall == fn \in {"plot_lambdas_components", "plot_lambdas_profiles"}

\* the value computed at lines 91-92 for row r of ts at position x, before
\* any suppression: the tau-weighted sum of the tetrad values at x
Raw(r, x) ==
    SumSeq([j \in 1..Len(f) |-> ts.rows[r][j] * tetrad(x, f[j].centre, f[j].width)])

MarkerY == series[1].y.rows

LineY == series[2].y.rows

AnchorNumbers == {57 * PScale, 64 * PScale, 71 * PScale}

\* |v| <= 1e-8, v in value units
NearZero(v) == Abs(v) <= VUnit \div AtolInv

AllZeroTaus == \A r \in 1..Len(args.ts.rows) : \A j \in 1..NTetrads : args.ts.rows[r][j] = 0

SingleTauVector == atleast_2d(args.ts).shape = <<1, NTetrads>>

\* C1 as stated: with drop0=True no marker at atomic number 57, 64 or 71 is
\* ever NaN, in any row, and every marker at another atomic number whose
\* computed value is near zero is NaN.
C1_AnchorsNeverSuppressed ==
    (TetradsDone /\ args.drop0) =>
        \A r \in 1..Len(MarkerY) : \A i \in 1..Len(z) :
            /\ z[i] \in AnchorNumbers => MarkerY[r][i] # NaN
            /\ (z[i] \notin AnchorNumbers /\ NearZero(Raw(r, z[i])))
                  => MarkerY[r][i] = NaN

\* C1 amended: with drop0=True a marker series is drawn only for a tau matrix
\* of 4 rows; in row r the marker at the r-th atomic number of
\* (57, 64, 64, 71) keeps its computed value, also when that is 0, and the
\* marker at every other atomic number (the other anchors included) whose
\* computed value is near zero is NaN.
C1_OwnAnchorKept ==
    (TetradsDone /\ args.drop0) =>
        /\ Len(MarkerY) = Len(Anchors)
        /\ \A r \in 1..Len(MarkerY) : \A i \in 1..Len(z) :
              /\ z[i] = Anchors[r] =>
                    (MarkerY[r][i] = Raw(r, z[i]) /\ MarkerY[r][i] # NaN)
              /\ (z[i] # Anchors[r] /\ NearZero(Raw(r, z[i])))
                    => MarkerY[r][i] = NaN

\* C1 witness: a drawn row keeps a 0 at its own anchor and has lost the zero
\* at another anchor and at a non-anchor atomic number.
C1_Witness ==
    /\ TetradsDone /\ args.drop0
    /\ \E r \in 1..Len(MarkerY) : \E i, j, k \in 1..Len(z) :
          /\ z[i] = Anchors[r] /\ MarkerY[r][i] = 0
          /\ z[j] \in AnchorNumbers /\ z[j] # Anchors[r] /\ MarkerY[r][j] = NaN
          /\ z[k] \notin AnchorNumbers /\ Raw(r, z[k]) = 0 /\ MarkerY[r][k] = NaN

\* C2 as stated: a call with a single tau vector of 4 weights raises nothing,
\* for every index and both values of drop0, and draws exactly two series:
\* 15 marker values at 57..71 and 1000 line values at the linspace positions.
C2_SingleVectorCompletes ==
    (fn = "plot_tetrads_profiles" /\ SingleTauVector) =>
        /\ pc # "error"
        /\ pc = "done" =>
              /\ Len(series) = 2
              /\ series[1].kind = "marker" /\ series[2].kind = "line"
              /\ series[1].y.shape = <<ZStop - ZFirst>>
              /\ Len(series[1].x) = ZStop - ZFirst
              /\ series[2].y.shape = <<NLine>>
              /\ Len(series[2].x) = NLine

\* C3 as stated: for all-zero taus every value of both series is 0 when
\* drop0=False and NaN when drop0=True.
C3_AllZeroAllSuppressed ==
    (TetradsDone /\ AllZeroTaus) =>
        /\ \A r \in 1..Len(MarkerY) : \A i \in 1..Len(z) :
              MarkerY[r][i] = IF args.drop0 THEN NaN ELSE 0
        /\ \A r \in 1..Len(LineY) : \A k \in 1..NLine :
              LineY[r][k] = IF args.drop0 THEN NaN ELSE 0

\* C3 amended: for all-zero taus every value of both drawn series is 0 when
\* drop0=False; when drop0=True every drawn line value is NaN and every drawn
\* marker is NaN except the marker of row r at the r-th atomic number of
\* (57, 64, 64, 71), which stays 0.
C3_AllZeroSuppressedButAnchor ==
    (TetradsDone /\ AllZeroTaus) =>
        /\ \A r \in 1..Len(MarkerY) : \A i \in 1..Len(z) :
              MarkerY[r][i] =
                  IF args.drop0 /\ z[i] # Anchors[r] THEN NaN ELSE 0
        /\ \A r \in 1..Len(LineY) : \A k \in 1..NLine :
              LineY[r][k] = IF args.drop0 THEN NaN ELSE 0

\* C3 witness: an all-zero tau matrix drawn with drop0=True.
C3_Witness ==
    /\ TetradsDone /\ AllZeroTaus /\ args.drop0
    /\ MarkerY[1][1] = 0 /\ MarkerY[1][2] = NaN /\ LineY[1][1] = NaN

\* C4: the x values of both series are the radii of z and linez when index is
\* "radii" or "elements", and z and linez themselves (index treated as "z")
\* for every other index; a second call that differs in index only draws the
\* same y values.
C4_IndexSelectsX ==
    TetradsDone =>
        /\ IF args.index \in {"radii", "elements"}
           THEN /\ index = args.index
                /\ series[1].x = REE_z_to_radii(z)
                /\ series[2].x = REE_z_to_radii(linez)
           ELSE /\ index = "z"
                /\ series[1].x = z
                /\ series[2].x = linez
        /\ prev.calls = 1 =>
              /\ prev.args.index # args.index
              /\ series[1].y = prev.series[1].y
              /\ series[2].y = prev.series[2].y

\* C4 witness: a call on the radius axis followed by a call with another
\* index that is drawn against the atomic numbers.
C4_Witness ==
    /\ TetradsDone /\ prev.calls = 1
    /\ prev.args.index = "elements" /\ args.index = "other"
    /\ series[1].x = z /\ prev.series[1].x # series[1].x
    /\ series[2].x = linez /\ prev.series[2].x # series[2].x

\* C5: the function reconstructed from a single (w, p) is w * poly_p(x) at
\* every sampled x, and in plot_lambdas_components the i-th component series
\* is lambdas[i] * poly_i(x) at every sampled x, whatever the other lambdas
\* are.
C5_ComponentIsOwnTerm ==
    /\ (LambdasCall /\ Len(args.lambdas) = 1 /\ Len(series) >= 1) =>
          \A k \in 1..NSamples :
              series[1].y[k] = args.lambdas[1] * lambda_poly(radii_xs[k], params[1])
    /\ ComponentsCall =>
          \A i \in 1..(Len(series) - 1) : \A k \in 1..NSamples :
              series[i + 1].y[k] =
                  args.lambdas[i] * lambda_poly(radii_xs[k], params[i])

\* C5 witness: a component of positive degree with a non-zero coefficient
\* is drawn next to another non-zero coefficient.
C5_Witness ==
    /\ ComponentsCall /\ pc = "done" /\ Len(series) >= 3
    /\ args.lambdas[1] # 0 /\ args.lambdas[2] # 0
    /\ \E k \in 1..NSamples : series[3].y[k] # 0

C8_LineAnchorsKept ==
    (TetradsDone /\ args.drop0) =>
        \A r \in 1..Len(LineY) : \A k \in 1..NLine :
            NearZero(Raw(r, linez[k])) =>
                (LineY[r][k] = NaN <=> linez[k] \notin AnchorNumbers)

\* C8 amended: with drop0=True every drawn line value that is near zero is
\* NaN, at every position, the anchors included: the line samples at 57 and
\* 71, whose value is 0, are NaN.
C8_LineZerosSuppressed ==
    (TetradsDone /\ args.drop0) =>
        \A r \in 1..Len(LineY) :
            /\ \A k \in 1..NLine :
                  LineY[r][k] =
                      IF NearZero(Raw(r, linez[k])) THEN NaN ELSE Raw(r, linez[k])
            /\ Raw(r, linez[1]) = 0 /\ LineY[r][1] = NaN
            /\ Raw(r, linez[NLine]) = 0 /\ LineY[r][NLine] = NaN

\* C8 witness: a line drawn with drop0=True has lost its samples at 57 and 71
\* and kept a sample in between.
C8_Witness ==
    /\ TetradsDone /\ args.drop0
    /\ linez[1] = Anchors[1] /\ linez[NLine] = Anchors[4]
    /\ LineY[1][1] = NaN /\ LineY[1][NLine] = NaN
    /\ \E k \in 1..NLine : LineY[1][k] # NaN

\* C9: for n lambdas and n parameter tuples plot_lambdas_components draws
\* 1 + n series: "Regression" first, then the components in increasing index;
\* the label of component i carries the degree i = len(params[i]) and only
\* the label of degree 0 has no basis-function factor.
C9_SeriesOrderAndLabels ==
    /\ (ComponentsCall /\ pc = "l_loop") => Len(series) = loop
    /\ (ComponentsCall /\ pc = "done") =>
        /\ Len(args.lambdas) = Len(params)
        /\ Len(series) = 1 + Len(args.lambdas)
        /\ series[1].label = <<"Regression">>
        /\ \A i \in 1..Len(args.lambdas) :
              LET d == i - 1
                  lab == series[i + 1].label
              IN /\ Len(params[i]) = d
                 /\ SubSeq(lab, 1, 4) = <<"$r^", format(d), ": \\lambda_", format(d)>>
                 /\ lab[Len(lab)] = "$"
                 /\ d = 0 <=> Len(lab) = 5
                 /\ d # 0 => SubSeq(lab, 5, 6) = <<"\\cdot f_", format(d)>>
                 /\ series[i + 1].y = [k \in 1..NSamples |->
                        args.lambdas[i] * lambda_poly(radii_xs[k], params[i])]

\* C9 witness: a call with three terms has drawn its four series.
C9_Witness ==
    /\ ComponentsCall /\ pc = "done" /\ Len(series) = 4
    /\ Len(series[2].label) = 5 /\ Len(series[3].label) = 7

\* C10: the basis function is the one of params=None whatever params is, and
\* a second call that differs in params only draws the same series.
C10_ParamsIgnored ==
    (fn = "plot_tetrads_profiles" /\ pc # "t_eval") =>
        /\ f = get_tetrads_function(<<>>)
        /\ (pc = "done" /\ prev.calls = 1) =>
              /\ prev.args.params # args.params
              /\ prev.args.ts = args.ts /\ prev.args.index = args.index
              /\ prev.args.drop0 = args.drop0
              /\ prev.f = f
              /\ prev.series = series

\* C10 witness: a call with params=None and a call with another parameter set
\* have both returned.
C10_Witness ==
    /\ TetradsDone /\ prev.calls = 1
    /\ args.params = ShiftedTetrads /\ prev.args.params = <<>>
    /\ \E j \in 1..NTetrads : args.ts.rows[1][j] # 0

====
